---- MODULE Spec2Model ----
(***************************************************************************)
(* Model of the BuiltWith MCP gateway (src/bw-mcp-v1.js): the combined     *)
(* stdio/HTTP entrypoint (lines 1-473) and the legacy stdio-only           *)
(* entrypoint (lines 475-738).                                             *)
(*                                                                         *)
(* JavaScript values are tagged records: [t |-> "undefined"],              *)
(* [t |-> "null"], [t |-> "bool", v], [t |-> "num", v], [t |-> "str", v],  *)
(* [t |-> "arr", v |-> sequence], [t |-> "obj", v |-> sequence of          *)
(* <<key, value>> pairs in insertion order].  Header values and API keys   *)
(* are strings whose v is a sequence of one-character strings, so that     *)
(* the regular expression, trim() and length of the code act on            *)
(* characters; strings of JSON bodies and tool inputs are TLA+ strings.    *)
(***************************************************************************)
EXTENDS Integers, Sequences, FiniteSets, TLC

VARIABLES
    cfg,              \* startup configuration: entrypoint, transport, environment
    toolCatalog,      \* the module array toolCatalog that registration fills
    registeredTools,  \* the tools registered on the McpServer with server.tool
    upstream,         \* upstream[r]: what fetch gave r's handler, or NoOutcome
    req,              \* req[r]: the inbound request / tool call r, or NoReq
    pc,               \* pc[r]: the position of r's handler
    alsStore,         \* alsStore[r]: the AsyncLocalStorage store of r's async context
    serverTransport,  \* the transport the shared McpServer is connected to
    outbound,         \* outbound[r]: the fetch() calls issued on behalf of r
    result,           \* result[r]: what requestBuiltWithJson returned to r's handler
    envelope,         \* envelope[r]: the tool result the handler returned
    res,              \* res[r]: the HTTP response object of r
    faults,           \* faults[r]: the exceptions the libraries raised while serving r
    unhandled,        \* rejections no handler caught (unhandledRejection)
    pure              \* the call frame of a function applied on its own

vars == <<cfg, toolCatalog, registeredTools, req, pc, alsStore, serverTransport,
          outbound, upstream, result, envelope, res, faults, unhandled, pure>>

-----------------------------------------------------------------------------
(* JavaScript values *)

Undefined == [t |-> "undefined"]
Null == [t |-> "null"]
Bool(b) == [t |-> "bool", v |-> b]
Num(n) == [t |-> "num", v |-> n]
Str(s) == [t |-> "str", v |-> s]
Arr(s) == [t |-> "arr", v |-> s]
Obj(s) == [t |-> "obj", v |-> s]

\* ToBoolean of a value whose strings are character sequences
TruthyChars(x) ==
    CASE x.t = "undefined" -> FALSE
      [] x.t = "null" -> FALSE
      [] x.t = "str" -> Len(x.v) > 0
      [] OTHER -> TRUE

\* ToBoolean of a JSON value (strings are TLA+ strings)
Truthy(x) ==
    CASE x.t = "undefined" -> FALSE
      [] x.t = "null" -> FALSE
      [] x.t = "bool" -> x.v
      [] x.t = "num" -> x.v # 0
      [] x.t = "str" -> x.v # ""
      [] OTHER -> TRUE

-----------------------------------------------------------------------------
(* Character strings *)

Rep(c, n) == [i \in 1..n |-> c]

\* The characters of the class \s that a header value can hold; trim()
\* strips the same class.  "NBSP" stands for the one character U+00A0.
Whitespace == {" ", "\t", "NBSP"}

IsWs(c) == c \in Whitespace

ToLower(c) ==
    CASE c = "B" -> "b"
      [] c = "E" -> "e"
      [] c = "A" -> "a"
      [] c = "R" -> "r"
      [] OTHER -> c

SetMin(S) == CHOOSE x \in S : \A y \in S : x <= y
SetMax(S) == CHOOSE x \in S : \A y \in S : x >= y

\* the characters a..b of s; empty when there are none
Slice(s, a, b) == IF a > b \/ a < 1 \/ b > Len(s) THEN <<>> ELSE SubSeq(s, a, b)

NonWsAt(s) == {i \in 1..Len(s) : ~IsWs(s[i])}

\* the number of whitespace characters s starts with
LeadWs(s) == IF NonWsAt(s) = {} THEN Len(s) ELSE SetMin(NonWsAt(s)) - 1

\* String.prototype.trim
Trim(s) == IF NonWsAt(s) = {} THEN <<>> ELSE SubSeq(s, SetMin(NonWsAt(s)), SetMax(NonWsAt(s)))

BearerWord == <<"b", "e", "a", "r", "e", "r">>

\* /^Bearer\s+(.+)$/i.exec(header): \s+ is greedy and gives one character
\* back when nothing is left for (.+).  A header value holds no line
\* terminator, so . matches every character of it.
BearerExec(header) ==
    LET n == Len(header)
        prefixOk == n >= Len(BearerWord)
                    /\ \A i \in 1..Len(BearerWord) : ToLower(header[i]) = BearerWord[i]
        rest == Slice(header, Len(BearerWord) + 1, n)
        w == LeadWs(rest)
    IN  IF ~prefixOk THEN [matched |-> FALSE, g1 |-> <<>>]
        ELSE IF w < Len(rest)
             THEN [matched |-> w >= 1, g1 |-> Slice(rest, w + 1, Len(rest))]
             ELSE [matched |-> w >= 2, g1 |-> Slice(rest, w, Len(rest))]

MinKeyLen == 10
MaxKeyLen == 256

extractBearerApiKeyOptional_NoTrim(rq) ==
    LET header == IF TruthyChars(rq.authorization) THEN rq.authorization.v ELSE <<>>
        match == BearerExec(header)
        apiKey == match.g1
    IN  IF ~match.matched THEN Null
        ELSE IF Len(apiKey) < MinKeyLen \/ Len(apiKey) > MaxKeyLen THEN Null
        ELSE Str(apiKey)

extractBearerApiKeyOptional_RawHeader(rq) ==
    LET header == IF TruthyChars(rq.authorization) THEN rq.authorization.v ELSE <<>>
        match == BearerExec(header)
        apiKey == Trim(match.g1)
    IN  IF ~match.matched THEN (IF header = <<>> THEN Null ELSE Str(header))
        ELSE IF Len(apiKey) < MinKeyLen \/ Len(apiKey) > MaxKeyLen THEN Null
        ELSE Str(apiKey)

extractBearerApiKeyOptional(rq) ==
    LET header == IF TruthyChars(rq.authorization) THEN rq.authorization.v ELSE <<>>
        match == BearerExec(header)
        apiKey == Trim(match.g1)
    IN  IF ~match.matched THEN Null
        ELSE IF Len(apiKey) < MinKeyLen \/ Len(apiKey) > MaxKeyLen THEN Null
        ELSE Str(apiKey)

-----------------------------------------------------------------------------
(* Property access on JSON values, and the domain-lookup normalizer *)

HasKey(o, key) == o.t = "obj" /\ \E i \in 1..Len(o.v) : o.v[i][1] = key

\* x.key, for x neither undefined nor null.  Only an object has own
\* properties here: a number, a boolean, a string and an array have none of
\* the names the code reads.
Get(x, key) ==
    IF HasKey(x, key)
    THEN x.v[CHOOSE i \in 1..Len(x.v) : x.v[i][1] = key][2]
    ELSE Undefined

\* x?.key
OptGet(x, key) == IF x.t \in {"undefined", "null"} THEN Undefined ELSE Get(x, key)

\* x?.[0], for x an array, an object or a non-string primitive
OptIndex0(x) ==
    CASE x.t = "arr" -> IF Len(x.v) > 0 THEN x.v[1] ELSE Undefined
      [] x.t = "obj" -> Get(x, "0")
      [] OTHER -> Undefined

IsArray(x) == x.t = "arr"

\* v || ""
OrEmpty(v) == IF Truthy(v) THEN v ELSE Str("")

TechRecord(tech) ==
    Obj(<< <<"Name", OrEmpty(Get(tech, "Name"))>>,
           <<"Description", OrEmpty(Get(tech, "Description"))>>,
           <<"Tag", OrEmpty(Get(tech, "Tag"))>>,
           <<"Link", OrEmpty(Get(tech, "Link"))>> >>)

\* the inner loop of extractTechnologies: one record per truthy entry
RECURSIVE PushTechnologies(_)
PushTechnologies(technologies) ==
    IF technologies = <<>> THEN <<>>
    ELSE LET tech == Head(technologies)
         IN  (IF ~Truthy(tech) THEN <<>> ELSE <<TechRecord(tech)>>)
             \o PushTechnologies(Tail(technologies))

\* the outer loop of extractTechnologies
RECURSIVE PushPaths(_)
PushPaths(paths) ==
    IF paths = <<>> THEN <<>>
    ELSE LET technologies == OptGet(Head(paths), "Technologies")
         IN  (IF ~IsArray(technologies) THEN <<>> ELSE PushTechnologies(technologies.v))
             \o PushPaths(Tail(paths))

\* data?.Results?.[0]?.Result?.Paths
ResultPaths(data) ==
    OptGet(OptGet(OptIndex0(OptGet(data, "Results")), "Result"), "Paths")

RECURSIVE PushPathsKeepFalsy(_)
PushPathsKeepFalsy(paths) ==
    IF paths = <<>> THEN <<>>
    ELSE LET technologies == OptGet(Head(paths), "Technologies")
         IN  (IF ~IsArray(technologies) THEN <<>>
              ELSE [i \in 1..Len(technologies.v) |-> TechRecord(technologies.v[i])])
             \o PushPathsKeepFalsy(Tail(paths))

extractTechnologies_KeepFalsy(data) ==
    LET paths == ResultPaths(data)
    IN  IF ~IsArray(paths) THEN Arr(<<>>) ELSE Arr(PushPathsKeepFalsy(paths.v))

\* extractTechnologies (both entrypoints hold the same text)
extractTechnologies(data) ==
    LET paths == ResultPaths(data)
    IN  IF ~IsArray(paths) THEN Arr(<<>>) ELSE Arr(PushPaths(paths.v))

-----------------------------------------------------------------------------
(* Idle values of the variables *)

Reqs == {1, 2}

NoReq == [method |-> "none"]
NoStore == [t |-> "undefined"]
NoResult == [t |-> "none"]
NoEnvelope == [t |-> "none"]
NoRes == [status |-> 0, headersSent |-> FALSE, body |-> "none", closed |-> FALSE,
          payload |-> [t |-> "undefined"]]
NoCall == [fn |-> "none"]
NoOutcome == [kind |-> "none"]

IdleCfg == [entry |-> "main", transport |-> "stdio", envKey |-> Undefined,
            hostname |-> "api.builtwith.com", allowed |-> <<>>]

RequestsIdle ==
    /\ req = [r \in Reqs |-> NoReq]
    /\ pc = [r \in Reqs |-> "idle"]
    /\ alsStore = [r \in Reqs |-> NoStore]
    /\ serverTransport = 0
    /\ outbound = [r \in Reqs |-> <<>>]
    /\ upstream = [r \in Reqs |-> NoOutcome]
    /\ result = [r \in Reqs |-> NoResult]
    /\ envelope = [r \in Reqs |-> NoEnvelope]
    /\ res = [r \in Reqs |-> NoRes]
    /\ faults = [r \in Reqs |-> {}]
    /\ unhandled = {}

ServerIdle ==
    /\ cfg = IdleCfg
    /\ toolCatalog = <<>>
    /\ registeredTools = <<>>
    /\ RequestsIdle

serverVars == <<cfg, toolCatalog, registeredTools, req, pc, alsStore,
                serverTransport, outbound, upstream, result, envelope, res, faults,
                unhandled>>

-----------------------------------------------------------------------------
(* JSON.stringify and buildResponse *)

\* String(value) of a tool input or upstream parameter
ToStr(x) ==
    CASE x.t = "str" -> x.v
      [] x.t = "bool" -> IF x.v THEN "true" ELSE "false"
      [] x.t = "num" -> ToString(x.v)
      [] x.t = "null" -> "null"
      [] OTHER -> "undefined"

Quote(s) == "\"" \o s \o "\""

\* JSON.stringify of a value of the model: a string is quoted (the strings
\* of the model hold no character that needs an escape), a property whose
\* value is undefined is left out, an undefined array element is null.
RECURSIVE Stringify(_)
RECURSIVE StringifyElems(_)
RECURSIVE StringifyProps(_)
Stringify(x) ==
    CASE x.t = "str" -> Quote(x.v)
      [] x.t = "arr" -> "[" \o StringifyElems(x.v) \o "]"
      [] x.t = "obj" -> "{" \o StringifyProps(SelectSeq(x.v, LAMBDA kv : kv[2].t # "undefined")) \o "}"
      [] OTHER -> ToStr(x)

StringifyElems(s) ==
    IF s = <<>> THEN ""
    ELSE (IF Head(s).t = "undefined" THEN "null" ELSE Stringify(Head(s)))
         \o (IF Tail(s) = <<>> THEN "" ELSE "," \o StringifyElems(Tail(s)))

StringifyProps(s) ==
    IF s = <<>> THEN ""
    ELSE Quote(Head(s)[1]) \o ":" \o Stringify(Head(s)[2])
         \o (IF Tail(s) = <<>> THEN "" ELSE "," \o StringifyProps(Tail(s)))

buildResponse(payload) ==
    [content |-> << [type |-> "text", text |-> Stringify(payload)] >>]

-----------------------------------------------------------------------------
(* Startup configuration *)

\* line 14: process.env.BUILTWITH_API_KEY || null
BUILTWITH_API_KEY_Unset == Null

BUILTWITH_API_KEY == IF TruthyChars(cfg.envKey) THEN cfg.envKey ELSE Null

\* line 487 (legacy entrypoint): process.env.BUILTWITH_API_KEY as it is
BUILTWITH_API_KEY_legacy == cfg.envKey

BUILTWITH_API_HOSTNAME == cfg.hostname

MCP_TRANSPORT == cfg.transport

MCP_ALLOWED_ORIGINS == cfg.allowed

Includes(list, x) == \E i \in 1..Len(list) : list[i] = x

-----------------------------------------------------------------------------
(* The tool table of registerTools (the same 14 tools in both entrypoints) *)

JsonTool(name, path, input, param) ==
    [name |-> name, path |-> path, input |-> input, param |-> param]

ToolTable ==
    << JsonTool("domain-lookup", "v22/api.json", "domain", "LOOKUP"),
       JsonTool("domain-api", "v22/api.json", "lookup", "LOOKUP"),
       JsonTool("relationships-api", "rv4/api.json", "lookup", "LOOKUP"),
       JsonTool("free-api", "free1/api.json", "lookup", "LOOKUP"),
       JsonTool("company-to-url", "ctu3/api.json", "company", "COMPANY"),
       JsonTool("tags-api", "tag1/api.json", "lookup", "LOOKUP"),
       JsonTool("recommendations-api", "rec1/api.json", "lookup", "LOOKUP"),
       JsonTool("redirects-api", "redirect1/api.json", "lookup", "LOOKUP"),
       JsonTool("keywords-api", "kw2/api.json", "lookup", "LOOKUP"),
       JsonTool("trends-api", "trends/v6/api.json", "tech", "TECH"),
       JsonTool("product-api", "productv1/api.json", "query", "QUERY"),
       JsonTool("trust-api", "trustv1/api.json", "lookup", "LOOKUP"),
       JsonTool("financial-api", "financial1/api.json", "lookup", "LOOKUP"),
       JsonTool("social-api", "social1/api.json", "lookup", "LOOKUP") >>

ToolNames == {ToolTable[i].name : i \in 1..Len(ToolTable)}

ToolByName(name) == ToolTable[CHOOSE i \in 1..Len(ToolTable) : ToolTable[i].name = name]

\* the parameter mapper of a tool: ({ lookup }) => ({ LOOKUP: lookup }), and
\* for domain-lookup { LOOKUP: domain, LIVEONLY: liveOnly === false ? undefined : "yes" }
buildParams_LiveOnlyWhenTrue(tool, input) ==
    IF tool.name = "domain-lookup"
    THEN Obj(<< <<"LOOKUP", Get(input, "domain")>>,
                <<"LIVEONLY", IF Get(input, "liveOnly") = Bool(TRUE)
                              THEN Str("yes") ELSE Undefined>> >>)
    ELSE Obj(<< <<tool.param, Get(input, tool.input)>> >>)

buildParams(tool, input) ==
    IF tool.name = "domain-lookup"
    THEN Obj(<< <<"LOOKUP", Get(input, "domain")>>,
                <<"LIVEONLY", IF Get(input, "liveOnly") = Bool(FALSE)
                              THEN Undefined ELSE Str("yes")>> >>)
    ELSE Obj(<< <<tool.param, Get(input, tool.input)>> >>)

-----------------------------------------------------------------------------
(* Registration: registerTools, registerJsonTool, zodSchemaToJson *)

\* a zod schema value, as far as zodSchemaToJson looks into it: _def.typeName
\* and, for an optional, _def.innerType
ZodString == [typeName |-> "ZodString"]
ZodBoolean == [typeName |-> "ZodBoolean"]
ZodOptional(inner) == [typeName |-> "ZodOptional", innerType |-> inner]

\* typeName.replace("Zod", "").toLowerCase()
TypeWord(typeName) ==
    CASE typeName = "ZodString" -> "string"
      [] typeName = "ZodBoolean" -> "boolean"
      [] typeName = "ZodOptional" -> "optional"
      [] OTHER -> "string"

\* val.isOptional?.(): whether the schema accepts undefined
IsOptional(val) == val.typeName = "ZodOptional"

\* the right-hand side of `out[key] = ...` in zodSchemaToJson
RenderParam_RawTypeName(val) ==
    LET inner == IF val.typeName = "ZodOptional" THEN val.innerType.typeName ELSE val.typeName
        optional == val.typeName = "ZodOptional" \/ IsOptional(val)
    IN  IF optional THEN inner \o " (optional)" ELSE inner

RenderParam(val) ==
    LET inner == IF val.typeName = "ZodOptional" THEN val.innerType.typeName ELSE val.typeName
        type == TypeWord(inner)
        optional == val.typeName = "ZodOptional" \/ IsOptional(val)
    IN  IF optional THEN type \o " (optional)" ELSE type

\* zodSchemaToJson of a raw shape, a sequence of <<key, zod schema>>
zodSchemaToJson(schema) ==
    Obj([i \in 1..Len(schema) |-> <<schema[i][1], Str(RenderParam(schema[i][2]))>>])

ToolDescription(name) ==
    CASE name = "domain-lookup" -> "Returns the live web technologies used on the root domain name."
      [] name = "domain-api" -> "Domain API JSON lookup for technology and metadata by domain."
      [] name = "relationships-api" -> "Relationships API JSON lookup for related websites by domain."
      [] name = "free-api" -> "Free API JSON lookup for category/group counts by domain."
      [] name = "company-to-url" -> "Company to URL API JSON lookup for domains from a company name."
      [] name = "tags-api" -> "Tags API JSON lookup for related domains from IP or attributes."
      [] name = "recommendations-api" -> "Recommendations API JSON lookup for technology recommendations by domain."
      [] name = "redirects-api" -> "Redirects API JSON lookup for live and historical redirects by domain."
      [] name = "keywords-api" -> "Keywords API JSON lookup for keyword data by domain."
      [] name = "trends-api" -> "Trends API JSON lookup for technology trend data."
      [] name = "product-api" -> "Product API JSON lookup for ecommerce product searches."
      [] name = "trust-api" -> "Trust API JSON lookup for trust scoring by domain."
      [] name = "financial-api" -> "Financial API JSON lookup for financial data by domain."
      [] name = "social-api" -> "Social API JSON lookup for domains related to social profiles."

\* the description the legacy entrypoint registers domain-lookup under
ToolDescription_legacy(name) ==
    IF name = "domain-lookup"
    THEN "Returns the live web technologies use on the root domain name."
    ELSE ToolDescription(name)

\* the raw shape a tool is registered with
ToolSchema(tool) ==
    IF tool.name = "domain-lookup"
    THEN << <<"domain", ZodString>>, <<"liveOnly", ZodOptional(ZodBoolean)>> >>
    ELSE << <<tool.input, ZodString>> >>

CatalogEntry(name, description, parameters) ==
    Obj(<< <<"name", Str(name)>>, <<"description", Str(description)>>,
           <<"parameters", parameters>> >>)

\* server.tool(name, description, schema, handler)
ServerTool(name, description, schema) ==
    [name |-> name, description |-> description, schema |-> schema]

NoRegistry == [toolCatalog |-> <<>>, tools |-> <<>>]

\* registerJsonTool: the catalog entry and the registration of one JSON tool
registerJsonTool(reg, name, description, schema) ==
    [toolCatalog |-> Append(reg.toolCatalog,
                            CatalogEntry(name, description, zodSchemaToJson(schema))),
     tools |-> Append(reg.tools, ServerTool(name, description, schema))]

\* registerTools, lines 289-312: the catalog entry of domain-lookup is
\* written out by hand
registerDomainLookup(reg) ==
    [toolCatalog |-> Append(reg.toolCatalog,
                            CatalogEntry("domain-lookup",
                                         "Returns the live web technologies used on the root domain name.",
                                         Obj(<< <<"domain", Str("string")>>,
                                                <<"liveOnly", Str("boolean (optional)")>> >>))),
     tools |-> Append(reg.tools,
                      ServerTool("domain-lookup",
                                 "Returns the live web technologies used on the root domain name.",
                                 << <<"domain", ZodString>>,
                                    <<"liveOnly", ZodOptional(ZodBoolean)>> >>))]

\* registerTools, lines 314-404: the thirteen registerJsonTool calls
RECURSIVE registerJsonTools(_, _)
registerJsonTools(reg, tools) ==
    IF tools = <<>> THEN reg
    ELSE registerJsonTools(registerJsonTool(reg, Head(tools).name,
                                            ToolDescription(Head(tools).name),
                                            ToolSchema(Head(tools))),
                           Tail(tools))

registerTools_SkipDomainLookup == registerJsonTools(NoRegistry, Tail(ToolTable))

registerTools == registerJsonTools(registerDomainLookup(NoRegistry), Tail(ToolTable))

\* _tools() of the legacy entrypoint: server.tool for each tool, no catalog
registerTools_legacy ==
    [toolCatalog |-> <<>>,
     tools |-> [i \in 1..Len(ToolTable) |->
                  ServerTool(ToolTable[i].name, ToolDescription_legacy(ToolTable[i].name),
                             ToolSchema(ToolTable[i]))]]

\* the catalogs and the server's tools once main() has registered them
Registered ==
    /\ toolCatalog = IF cfg.entry = "legacy" THEN registerTools_legacy.toolCatalog
                     ELSE registerTools.toolCatalog
    /\ registeredTools = IF cfg.entry = "legacy" THEN registerTools_legacy.tools
                         ELSE registerTools.tools

PromptEntry(name, description, param) ==
    Obj(<< <<"name", Str(name)>>, <<"description", Str(description)>>,
           <<"parameters", Obj(<< <<param, Str("string")>> >>)>> >>)

\* promptCatalog after registerPrompts
PromptCatalog ==
    << PromptEntry("analyze-tech-stack", "Analyze the technology stack of a domain", "domain"),
       PromptEntry("find-related-websites", "Find websites related to a domain", "domain"),
       PromptEntry("get-technology-recommendations",
                   "Get technology recommendations for a domain", "domain"),
       PromptEntry("research-company", "Research a company's web presence by name", "company"),
       PromptEntry("check-domain-trust", "Check the trust score of a domain", "domain") >>

\* the object app.get("/mcp") passes to res.json
DiscoveryDocument ==
    Obj(<< <<"name", Str("builtwith")>>,
           <<"version", Str("1.2.0")>>,
           <<"description",
             Str("BuiltWith MCP Server - technology lookup, trends, trust scores and more. https://api.builtwith.com/mcp is a valid MCP endpoint you are currently accessing it with a GET request.")>>,
           <<"authentication", Str("Pass your BuiltWith API key as Authorization: Bearer <key>")>>,
           <<"tools", Arr(toolCatalog)>>,
           <<"prompts", Arr(PromptCatalog)>> >>)

-----------------------------------------------------------------------------
(* The upstream client *)

\* url.searchParams.set(key, value)
SearchParamsSet(query, key, value) ==
    IF \E i \in 1..Len(query) : query[i][1] = key
    THEN LET first == SetMin({i \in 1..Len(query) : query[i][1] = key})
         IN  [i \in 1..Len(query) |-> IF i = first THEN <<key, value>> ELSE query[i]]
    ELSE Append(query, <<key, value>>)

\* lines 75-79: the loop over Object.entries(params || {})
RECURSIVE SetParams_SkipFalsy(_, _)
SetParams_SkipFalsy(query, entries) ==
    IF entries = <<>> THEN query
    ELSE LET key == Head(entries)[1]
             value == Head(entries)[2]
         IN  SetParams_SkipFalsy(IF Truthy(value)
                                 THEN SearchParamsSet(query, key, Str(ToStr(value)))
                                 ELSE query,
                                 Tail(entries))

RECURSIVE SetParams(_, _)
SetParams(query, entries) ==
    IF entries = <<>> THEN query
    ELSE LET key == Head(entries)[1]
             value == Head(entries)[2]
         IN  SetParams(IF value.t # "undefined" /\ value.t # "null" /\ ToStr(value) # ""
                       THEN SearchParamsSet(query, key, Str(ToStr(value)))
                       ELSE query,
                       Tail(entries))

\* lines 72-79: new URL(`https://${BUILTWITH_API_HOSTNAME}/${path}`) and its query
BuildUrl(hostname, apiKey, path, params) ==
    [scheme |-> "https", host |-> hostname, path |-> path,
     query |-> SetParams(<< <<"KEY", apiKey>> >>,
                         IF params.t = "obj" THEN params.v ELSE <<>>)]

Ok(data) == [ok |-> TRUE, data |-> data]
Failed(error) == [ok |-> FALSE, error |-> error]

MissingKeyError == Obj(<< <<"error", Str("Missing BuiltWith API key.")>> >>)
MissingKeyError_legacy == Obj(<< <<"error", Str("Missing BUILTWITH_API_KEY.")>> >>)
MissingKeyResponse_legacy ==
    buildResponse(Obj(<< <<"error", Str("Missing BUILTWITH_API_KEY environment variable.")>> >>))

\* getCurrentApiKey evaluated in the async context of r: als.getStore() is
\* the store als.run bound to that context, undefined outside every run
getCurrentApiKey_FallbackFirst(r) ==
    LET store == alsStore[r]
    IN  IF TruthyChars(BUILTWITH_API_KEY) THEN BUILTWITH_API_KEY
        ELSE IF store.t # "undefined" THEN store.apiKey ELSE BUILTWITH_API_KEY

getCurrentApiKey_SharedSlot(r) ==
    LET store == IF serverTransport \in Reqs THEN alsStore[serverTransport] ELSE NoStore
    IN  IF store.t # "undefined" /\ TruthyChars(store.apiKey)
        THEN store.apiKey
        ELSE BUILTWITH_API_KEY

getCurrentApiKey(r) ==
    LET store == alsStore[r]
    IN  IF store.t # "undefined" /\ TruthyChars(store.apiKey)
        THEN store.apiKey
        ELSE BUILTWITH_API_KEY

\* requestBuiltWithJson up to `await fetch(url)`: the result when it returns
\* before fetching, or the one request it issues
requestBuiltWithJson_NoKeyCheck(r, path, params) ==
    [fetch |-> << BuildUrl(BUILTWITH_API_HOSTNAME, getCurrentApiKey(r), path, params) >>,
     result |-> [t |-> "none"]]

requestBuiltWithJson(r, path, params) ==
    LET apiKey == getCurrentApiKey(r)
    IN  IF ~TruthyChars(apiKey)
        THEN [fetch |-> <<>>, result |-> Failed(MissingKeyError)]
        ELSE [fetch |-> << BuildUrl(BUILTWITH_API_HOSTNAME, apiKey, path, params) >>,
              result |-> [t |-> "none"]]

\* the legacy entrypoint's requestBuiltWithJson (lines 499-510), which reads
\* the module constant and a fixed hostname
requestBuiltWithJson_legacy(r, path, params) ==
    IF ~TruthyChars(BUILTWITH_API_KEY_legacy)
    THEN [fetch |-> <<>>, result |-> Failed(MissingKeyError_legacy)]
    ELSE [fetch |-> << BuildUrl("api.builtwith.com", BUILTWITH_API_KEY_legacy, path, params) >>,
          result |-> [t |-> "none"]]

\* What fetch(url) and response.json() can do: fetch rejects with an error,
\* or resolves with a status and a body that parses as JSON or does not.
NetworkFailure(message) == [kind |-> "rejected", message |-> message]
HttpResponse(status, json, body) ==
    [kind |-> "response", status |-> status, json |-> json, body |-> body]

\* response.ok
ResponseOk(status) == status >= 200 /\ status <= 299

\* requestBuiltWithJson from `await fetch(url)` on (lines 81-118; the legacy
\* entrypoint's lines 512-549 are the same)
requestBuiltWithJsonSettle_StatusFirst(outcome) ==
    IF outcome.kind = "rejected"
    THEN Failed(Obj(<< <<"error", Str("Failed to reach BuiltWith API.")>>,
                       <<"details", Str(outcome.message)>> >>))
    ELSE IF ~ResponseOk(outcome.status)
    THEN Failed(Obj(<< <<"error", Str("BuiltWith API error.")>>,
                       <<"status", Num(outcome.status)>> >>))
    ELSE IF ~outcome.json
    THEN Failed(Obj(<< <<"error", Str("BuiltWith API did not return JSON.")>>,
                       <<"status", Num(outcome.status)>> >>))
    ELSE Ok(outcome.body)

requestBuiltWithJsonSettle(outcome) ==
    IF outcome.kind = "rejected"
    THEN Failed(Obj(<< <<"error", Str("Failed to reach BuiltWith API.")>>,
                       <<"details", Str(outcome.message)>> >>))
    ELSE IF ~outcome.json
    THEN Failed(Obj(<< <<"error", Str("BuiltWith API did not return JSON.")>>,
                       <<"status", Num(outcome.status)>> >>))
    ELSE IF ~ResponseOk(outcome.status)
    THEN Failed(Obj(<< <<"error", Str("BuiltWith API error.")>>,
                       <<"status", Num(outcome.status)>>,
                       <<"data", outcome.body>> >>))
    ELSE Ok(outcome.body)

\* the requests requestBuiltWithJson issues after its fetch settled: every
\* branch of lines 84-118 returns, none fetches again
FetchAgain_RetryOnFailure(url, outcome) ==
    IF outcome.kind = "rejected" THEN <<url>> ELSE <<>>

FetchAgain(url, outcome) == <<>>

\* handleBuiltWithJson after requestBuiltWithJson returned
handleBuiltWithJson_DropError(rslt) ==
    IF ~rslt.ok THEN buildResponse(Obj(<< <<"error", Str("BuiltWith API error.")>> >>))
    ELSE buildResponse(rslt.data)

handleBuiltWithJson(rslt) ==
    IF ~rslt.ok THEN buildResponse(rslt.error) ELSE buildResponse(rslt.data)

\* the domain-lookup handler after requestBuiltWithJson returned
domainLookupFinish_EmptyList(rslt) ==
    IF ~rslt.ok THEN buildResponse(rslt.error)
    ELSE buildResponse(extractTechnologies(rslt.data))

domainLookupFinish(rslt) ==
    IF ~rslt.ok THEN buildResponse(rslt.error)
    ELSE LET extracted == extractTechnologies(rslt.data)
         IN  IF Len(extracted.v) = 0
             THEN buildResponse(Obj(<< <<"error", Str("No technologies found")>> >>))
             ELSE buildResponse(extracted)

-----------------------------------------------------------------------------
(* The HTTP transport: express routes of startHttp *)

JsonBody(status, payload) ==
    [status |-> status, headersSent |-> TRUE, body |-> Stringify(payload), closed |-> FALSE,
     payload |-> payload]

\* validateOrigin: TRUE when the request passes; it answers 403 itself when not
validateOrigin(rq) ==
    IF Len(MCP_ALLOWED_ORIGINS) = 0 THEN TRUE
    ELSE IF ~Truthy(rq.origin) THEN TRUE
    ELSE IF ~Includes(MCP_ALLOWED_ORIGINS, rq.origin.v) THEN FALSE
    ELSE TRUE

ForbiddenResponse == JsonBody(403, Obj(<< <<"error", Str("Forbidden origin")>> >>))

\* app.get("/mcp"), registered first: express gives it every GET and HEAD
\* of the path, and it ends the response without calling next()
AppGetMcp(r, requests) ==
    /\ cfg.entry = "main" /\ MCP_TRANSPORT = "http"
    /\ pc[r] = "idle"
    /\ \E rq \in requests :
         /\ rq.method \in {"GET", "HEAD"}
         /\ req' = [req EXCEPT ![r] = rq]
    /\ res' = [res EXCEPT ![r] = JsonBody(200, DiscoveryDocument)]
    /\ pc' = [pc EXCEPT ![r] = "done"]
    /\ UNCHANGED <<cfg, toolCatalog, registeredTools, alsStore, serverTransport,
                   outbound, upstream, result, envelope, faults, unhandled, pure>>

\* app.all("/mcp") up to `await server.connect(transport)`: the origin check,
\* the credential, als.run, the transport and its close listener, and the
\* call of server.connect, which makes the transport the server's
AppAllMcp(r, requests) ==
    /\ cfg.entry = "main" /\ MCP_TRANSPORT = "http"
    /\ pc[r] = "idle"
    /\ \E rq \in requests :
         /\ rq.method \notin {"GET", "HEAD"}
         /\ req' = [req EXCEPT ![r] = rq]
         /\ IF ~validateOrigin(rq)
            THEN /\ res' = [res EXCEPT ![r] = ForbiddenResponse]
                 /\ pc' = [pc EXCEPT ![r] = "done"]
                 /\ UNCHANGED <<alsStore, serverTransport>>
            ELSE /\ alsStore' = [alsStore EXCEPT
                                   ![r] = [t |-> "obj",
                                           apiKey |-> extractBearerApiKeyOptional(rq)]]
                 /\ serverTransport' = r
                 /\ pc' = [pc EXCEPT ![r] = "connecting"]
                 /\ UNCHANGED res
    /\ UNCHANGED <<cfg, toolCatalog, registeredTools, outbound, upstream, result,
                   envelope, faults, unhandled, pure>>

\* the catch block of app.all: res.status(500).json(...).  res.json throws
\* ERR_HTTP_HEADERS_SENT once the headers are sent; the throw rejects the
\* promise of the als.run callback, which nothing awaits.
CatchBlock(r, headersSent) ==
    IF headersSent
    THEN /\ res' = [res EXCEPT ![r] = [status |-> 200, headersSent |-> TRUE,
                                       body |-> "partial", closed |-> @.closed,
                                       payload |-> Undefined]]
         /\ unhandled' = unhandled \cup {<<r, "catch">>}
    ELSE /\ res' = [res EXCEPT ![r] = [JsonBody(500, Obj(<< <<"error", Str("MCP server error")>> >>))
                                       EXCEPT !.closed = res[r].closed]]
         /\ UNCHANGED unhandled

\* `await server.connect(transport)` rejects
ConnectRejects(r) ==
    /\ pc[r] = "connecting"
    /\ faults' = [faults EXCEPT ![r] = @ \cup {"server.connect"}]
    /\ CatchBlock(r, FALSE)
    /\ pc' = [pc EXCEPT ![r] = "done"]
    /\ UNCHANGED <<cfg, toolCatalog, registeredTools, req, alsStore, serverTransport,
                   outbound, upstream, result, envelope, pure>>

\* `await transport.handleRequest(req, res, req.body)` rejects, before or
\* after the transport started the response
HandleRequestRejects(r) ==
    /\ pc[r] = "connecting"
    /\ \E headersSent \in BOOLEAN :
         /\ faults' = [faults EXCEPT ![r] = @ \cup {IF headersSent
                                                    THEN "handleRequest after headers"
                                                    ELSE "handleRequest"}]
         /\ CatchBlock(r, headersSent)
    /\ pc' = [pc EXCEPT ![r] = "done"]
    /\ UNCHANGED <<cfg, toolCatalog, registeredTools, req, alsStore, serverTransport,
                   outbound, upstream, result, envelope, pure>>

-----------------------------------------------------------------------------
(* Tool handlers *)

\* the handler of a tool from its call to its first await: what it issues,
\* and what it returns when it returns without awaiting the network
HandlerStart(r, tool, input) ==
    IF cfg.entry = "legacy"
    THEN IF tool.name = "domain-lookup" /\ ~TruthyChars(BUILTWITH_API_KEY_legacy)
         THEN [fetch |-> <<>>, result |-> [t |-> "none"], envelope |-> MissingKeyResponse_legacy]
         ELSE LET start == requestBuiltWithJson_legacy(r, tool.path, buildParams(tool, input))
              IN  [fetch |-> start.fetch, result |-> start.result,
                   envelope |-> IF start.fetch # <<>> THEN [t |-> "none"]
                                ELSE IF tool.name = "domain-lookup"
                                     THEN domainLookupFinish(start.result)
                                     ELSE handleBuiltWithJson(start.result)]
    ELSE LET start == requestBuiltWithJson(r, tool.path, buildParams(tool, input))
         IN  [fetch |-> start.fetch, result |-> start.result,
              envelope |-> IF start.fetch # <<>> THEN [t |-> "none"]
                           ELSE IF tool.name = "domain-lookup"
                                THEN domainLookupFinish(start.result)
                                ELSE handleBuiltWithJson(start.result)]

RunHandler(r, call) ==
    LET h == HandlerStart(r, ToolByName(call.name), call.input)
    IN  /\ outbound' = [outbound EXCEPT ![r] = @ \o h.fetch]
        /\ result' = [result EXCEPT ![r] = h.result]
        /\ envelope' = [envelope EXCEPT ![r] = h.envelope]
        /\ pc' = [pc EXCEPT ![r] = IF h.fetch = <<>> THEN "returned" ELSE "fetching"]

\* the registrations server.tool made under a name
ToolsNamed_DefaultTool(name) ==
    IF \E i \in 1..Len(registeredTools) : registeredTools[i].name = name
    THEN {i \in 1..Len(registeredTools) : registeredTools[i].name = name}
    ELSE {1}

ToolsNamed(name) == {i \in 1..Len(registeredTools) : registeredTools[i].name = name}

\* whether a zod schema of the registered shapes accepts a value
AcceptsType(val, x) ==
    CASE val.typeName = "ZodString" -> x.t = "str"
      [] val.typeName = "ZodBoolean" -> x.t = "bool"
      [] OTHER -> FALSE

Accepts(val, x) ==
    IF val.typeName = "ZodOptional"
    THEN x.t = "undefined" \/ AcceptsType(val.innerType, x)
    ELSE AcceptsType(val, x)

\* z.object(shape).safeParse(args) succeeds
ValidInput(schema, input) ==
    /\ input.t = "obj"
    /\ \A i \in 1..Len(schema) : Accepts(schema[i][2], Get(input, schema[i][1]))

\* the parsed arguments: the declared keys the input holds, no other key
ParsedInput(schema, input) ==
    Obj([i \in 1..Len(SelectSeq(schema, LAMBDA kv : HasKey(input, kv[1]))) |->
           LET key == SelectSeq(schema, LAMBDA kv : HasKey(input, kv[1]))[i][1]
           IN  <<key, Get(input, key)>>])

\* what the server answers a tools/call with when it calls no handler
DispatchError(kind) == [error |-> kind]

\* a tools/call message reaches the server: the tool registered under the
\* name is looked up, the arguments are parsed with its schema, and its
\* handler is called with the parsed arguments
DispatchCall(r, call) ==
    IF ToolsNamed(call.name) = {}
    THEN /\ envelope' = [envelope EXCEPT ![r] = DispatchError("UnknownTool")]
         /\ pc' = [pc EXCEPT ![r] = "refused"]
         /\ UNCHANGED <<outbound, result>>
    ELSE LET tool == registeredTools[CHOOSE i \in ToolsNamed(call.name) : TRUE]
         IN  IF ~ValidInput(tool.schema, call.input)
             THEN /\ envelope' = [envelope EXCEPT ![r] = DispatchError("InvalidInput")]
                  /\ pc' = [pc EXCEPT ![r] = "refused"]
                  /\ UNCHANGED <<outbound, result>>
             ELSE RunHandler(r, [name |-> tool.name,
                                 input |-> ParsedInput(tool.schema, call.input)])

\* server.connect resolved and transport.handleRequest hands the tools/call
\* message to the server, inside the context als.run opened
Dispatch(r) ==
    /\ pc[r] = "connecting"
    /\ DispatchCall(r, req[r].call)
    /\ UNCHANGED <<cfg, toolCatalog, registeredTools, req, alsStore, serverTransport,
                   upstream, res, faults, unhandled, pure>>

\* a tools/call message on the stdio transport (startStdio, and main of the
\* legacy entrypoint): the handler runs outside every als.run
StdioToolCall(r, calls) ==
    /\ MCP_TRANSPORT = "stdio"
    /\ pc[r] = "idle"
    /\ \E call \in calls :
         /\ req' = [req EXCEPT ![r] = [method |-> "stdio", origin |-> Undefined,
                                       authorization |-> Undefined, call |-> call]]
         /\ DispatchCall(r, call)
    /\ UNCHANGED <<cfg, toolCatalog, registeredTools, alsStore, serverTransport,
                   upstream, res, faults, unhandled, pure>>

\* fetch settles and the handler runs to its return
FetchSettles(r, outcomes) ==
    /\ pc[r] = "fetching"
    /\ \E outcome \in outcomes :
         LET rslt == requestBuiltWithJsonSettle(outcome)
         IN  /\ result' = [result EXCEPT ![r] = rslt]
             /\ envelope' = [envelope EXCEPT ![r] =
                               IF req[r].call.name = "domain-lookup"
                               THEN domainLookupFinish(rslt)
                               ELSE handleBuiltWithJson(rslt)]
             /\ outbound' = [outbound EXCEPT
                               ![r] = @ \o FetchAgain(@[Len(@)], outcome)]
             /\ upstream' = [upstream EXCEPT ![r] = outcome]
    /\ pc' = [pc EXCEPT ![r] = "returned"]
    /\ UNCHANGED <<cfg, toolCatalog, registeredTools, req, alsStore, serverTransport,
                   res, faults, unhandled, pure>>

\* the JSON-RPC response that carries what the server answered
RpcResponse(env) ==
    IF "error" \in DOMAIN env
    THEN Obj(<< <<"error", Obj(<< <<"message", Str(env.error)>> >>)>> >>)
    ELSE Obj(<< <<"result",
                  Obj(<< <<"content",
                           Arr(<< Obj(<< <<"type", Str(env.content[1].type)>>,
                                         <<"text", Str(env.content[1].text)>> >>) >>)>> >>)>> >>)

\* transport.close() ran to its end on the transport of q
TransportClosed(q) ==
    /\ res[q].closed
    /\ faults[q] \cap {"transport.close throws", "transport.close rejects"} = {}

\* the transport of q holds the response stream of a request it has not
\* answered yet
StreamOpen(q) == pc[q] \in {"fetching", "returned", "refused"} /\ ~TransportClosed(q)

\* The transports the one shared server (line 9) can answer r through: the
\* transport r's request came in on, or, another request having called
\* server.connect since (line 445), the transport connected last, which
\* writes the response on its own stream when the two requests carry the
\* same JSON-RPC id and drops it (0) when they do not.
SendTargets(r) ==
    {r} \cup (IF serverTransport \in Reqs \ {r} THEN {serverTransport, 0} ELSE {})

\* the server answers the tools/call of r: the message is written on the
\* response the target transport holds, or dropped when it holds none
SendResult(r) ==
    /\ req[r].method \notin {"none", "stdio"}
    /\ pc[r] \in {"returned", "refused"}
    /\ \E target \in SendTargets(r) :
         IF target = 0 \/ ~StreamOpen(target)
         THEN UNCHANGED res
         ELSE res' = [res EXCEPT ![target] = [status |-> 200, headersSent |-> TRUE,
                                              body |-> "message", closed |-> @.closed,
                                              payload |-> RpcResponse(envelope[r])]]
    /\ pc' = [pc EXCEPT ![r] = "done"]
    /\ UNCHANGED <<cfg, toolCatalog, registeredTools, req, alsStore, serverTransport,
                   outbound, upstream, result, envelope, faults, unhandled, pure>>

\* the "close" listener of res: transport.close() inside try/catch.  A
\* synchronous throw is swallowed; a rejected promise is not awaited.
ResClose(r) ==
    /\ alsStore[r] # NoStore
    /\ ~res[r].closed
    /\ res' = [res EXCEPT ![r].closed = TRUE]
    /\ \E how \in {"closes", "throws", "rejects"} :
         /\ faults' = [faults EXCEPT ![r] = @ \cup (IF how = "closes" THEN {}
                                                    ELSE {"transport.close " \o how})]
         /\ unhandled' = unhandled \cup (IF how = "rejects"
                                         THEN {<<r, "transport.close">>} ELSE {})
    /\ UNCHANGED <<cfg, toolCatalog, registeredTools, req, pc, alsStore,
                   serverTransport, outbound, upstream, result, envelope, pure>>

-----------------------------------------------------------------------------
(* Configurations, requests and upstream outcomes *)

GoodOrigin == "https://app.example"
EvilOrigin == "https://evil.example"

Key1 == Rep("k", MinKeyLen)
Key2 == Rep("z", MinKeyLen + 1)
EnvKey == <<"e", "n", "v", "k", "e", "y">>

BearerOf(key) == <<"B", "e", "a", "r", "e", "r", " ">> \o key

\* BUILTWITH_API_KEY unset, set to the empty string, or set
EnvKeys == {Undefined, Str(<<>>), Str(EnvKey)}

HttpConfigs ==
    {[entry |-> "main", transport |-> "http", envKey |-> k,
      hostname |-> "api.builtwith.com", allowed |-> a] :
        k \in EnvKeys, a \in {<<>>, <<GoodOrigin>>}}

StdioConfigs ==
    {[entry |-> e, transport |-> "stdio", envKey |-> k,
      hostname |-> "api.builtwith.com", allowed |-> <<>>] :
        e \in {"main", "legacy"}, k \in EnvKeys}

HttpRequests(methods, origins, auths, calls) ==
    {[method |-> m, origin |-> o, authorization |-> a, call |-> NoCall] :
        m \in methods \cap {"GET", "HEAD"}, o \in origins, a \in auths}
    \cup
    {[method |-> m, origin |-> o, authorization |-> a, call |-> c] :
        m \in methods \ {"GET", "HEAD"}, o \in origins, a \in auths, c \in calls}

LookupBody(paths) ==
    Obj(<< <<"Results", Arr(<< Obj(<< <<"Lookup", Str("example.com")>>,
                                      <<"Result", Obj(<< <<"IsDB", Bool(TRUE)>>,
                                                         <<"Paths", paths>> >>)>> >>) >>)>>,
           <<"Errors", Arr(<<>>)>> >>)

EmptyResults == Obj(<< <<"Results", Arr(<<>>)>>, <<"Errors", Arr(<<>>)>> >>)

OneTechnology ==
    LookupBody(Arr(<< Obj(<< <<"Technologies",
                               Arr(<< Obj(<< <<"Name", Str("nginx")>>,
                                             <<"Tag", Str("Web Server")>> >>) >>)>> >>) >>))

\* a body whose one path holds a null entry and no technology
NullTechnology ==
    LookupBody(Arr(<< Obj(<< <<"Technologies", Arr(<< Null >>)>> >>) >>))

UpstreamErrorBody ==
    Obj(<< <<"Errors", Arr(<< Obj(<< <<"Message", Str("API key is incorrect")>> >>) >>)>> >>)

\* two concurrent requests
PairRequests ==
    HttpRequests({"POST"},
                 {Undefined},
                 {Undefined, Str(BearerOf(Key1)), Str(BearerOf(Key2))},
                 {[name |-> "domain-api", input |-> Obj(<< <<"lookup", Str("example.com")>> >>)]})
    \cup HttpRequests({"GET"}, {Str(EvilOrigin)}, {Undefined}, {})

\* the configurations of the two-request server: no origin allowlist, the
\* fallback credential set or unset
PairConfigs ==
    {c \in HttpConfigs \cup StdioConfigs : c.allowed = <<>> /\ c.envKey # Str(<<>>)}

PairCalls ==
    {[name |-> "domain-api", input |-> Obj(<< <<"lookup", Str("example.com")>> >>)],
     [name |-> "domain-api",
      input |-> Obj(<< <<"lookup", Str("example.com")>>, <<"KEY", Str("other-key")>> >>)]}

PairOutcomes ==
    {NetworkFailure("fetch failed"), HttpResponse(200, TRUE, EmptyResults)}

\* calls of names no tool is registered under
UnknownCalls ==
    { [name |-> "whois-api", input |-> Obj(<< <<"lookup", Str("example.com")>> >>)],
      [name |-> "domain-lookup-v2", input |-> Obj(<< <<"domain", Str("example.com")>> >>)],
      [name |-> "", input |-> Undefined] }

\* calls whose arguments the tool's schema rejects
InvalidCalls ==
    { [name |-> "domain-api", input |-> Obj(<<>>)],
      [name |-> "trends-api", input |-> Undefined],
      [name |-> "domain-lookup",
       input |-> Obj(<< <<"domain", Str("example.com")>>, <<"liveOnly", Str("no")>> >>)] }

\* calls whose arguments hold a key the tool's schema does not declare
ExtraKeyCalls ==
    { [name |-> "domain-api",
       input |-> Obj(<< <<"lookup", Str("example.com")>>, <<"KEY", Str("other-key")>> >>)],
      [name |-> "domain-lookup",
       input |-> Obj(<< <<"domain", Str("example.com")>>, <<"KEY", Str("other-key")>>,
                        <<"apiKey", Str("other-key")>> >>)] }

\* one request at a time, every tool and every kind of upstream outcome
AllCalls ==
    {[name |-> ToolTable[i].name,
      input |-> Obj(<< <<ToolTable[i].input, Str("example.com")>> >>)] : i \in 1..Len(ToolTable)}
    \cup
    {[name |-> "domain-lookup",
      input |-> Obj(<< <<"domain", Str("example.com")>>, <<"liveOnly", Bool(b)>> >>)] :
        b \in BOOLEAN}
    \cup UnknownCalls \cup InvalidCalls \cup ExtraKeyCalls

SingleRequests ==
    HttpRequests({"GET", "HEAD", "POST", "DELETE"},
                 {Undefined, Str(""), Str(GoodOrigin), Str(EvilOrigin)},
                 {Undefined, Str(BearerOf(Key1)), Str(BearerOf(Rep("k", MinKeyLen - 1))),
                  Str(<<"B", "a", "s", "i", "c", " ">> \o Key2)},
                 AllCalls)

AllOutcomes ==
    { NetworkFailure("fetch failed"),
      HttpResponse(200, FALSE, Undefined),
      HttpResponse(502, FALSE, Undefined),
      HttpResponse(403, TRUE, UpstreamErrorBody),
      HttpResponse(200, TRUE, EmptyResults),
      HttpResponse(200, TRUE, OneTechnology),
      HttpResponse(200, TRUE, Null),
      HttpResponse(200, TRUE, LookupBody(Arr(<<>>))),
      HttpResponse(200, TRUE, LookupBody(Str("none"))),
      HttpResponse(200, TRUE, NullTechnology),
      HttpResponse(204, FALSE, Undefined),
      HttpResponse(299, TRUE, EmptyResults),
      HttpResponse(300, TRUE, UpstreamErrorBody) }

-----------------------------------------------------------------------------
(* The server: two concurrent requests *)

Init ==
    /\ cfg \in PairConfigs
    /\ Registered
    /\ RequestsIdle
    /\ pure = NoCall

Next ==
    \E r \in Reqs :
        \/ AppGetMcp(r, PairRequests)
        \/ AppAllMcp(r, PairRequests)
        \/ ConnectRejects(r)
        \/ HandleRequestRejects(r)
        \/ Dispatch(r)
        \/ StdioToolCall(r, PairCalls)
        \/ FetchSettles(r, PairOutcomes)
        \/ SendResult(r)
        \/ ResClose(r)

Spec == Init /\ [][Next]_vars

(* The server: one request at a time *)

InitSingle ==
    /\ cfg \in HttpConfigs \cup StdioConfigs
    /\ Registered
    /\ RequestsIdle
    /\ pure = NoCall

NextSingle ==
    \/ AppGetMcp(1, SingleRequests)
    \/ AppAllMcp(1, SingleRequests)
    \/ ConnectRejects(1)
    \/ HandleRequestRejects(1)
    \/ Dispatch(1)
    \/ StdioToolCall(1, AllCalls)
    \/ FetchSettles(1, AllOutcomes)
    \/ SendResult(1)
    \/ ResClose(1)

SpecSingle == InitSingle /\ [][NextSingle]_vars

-----------------------------------------------------------------------------
(* extractBearerApiKeyOptional applied on its own to authorization headers *)

Schemes == { <<"B", "e", "a", "r", "e", "r">>, <<"b", "e", "a", "r", "e", "r">>,
             <<"B", "E", "A", "R", "E", "R">>, <<"B", "a", "s", "i", "c">>,
             <<"B", "e", "a", "r">>, <<>> }

Separators == { <<>>, <<" ">>, <<" ", "\t">>, <<"NBSP">> }

KeyLens == {0, 1, MinKeyLen - 1, MinKeyLen, MinKeyLen + 1,
            MaxKeyLen - 1, MaxKeyLen, MaxKeyLen + 1}

KeyBodies == {Rep("k", n) : n \in KeyLens}
             \cup {Rep("k", MinKeyLen - 1) \o <<" ">> \o Rep("z", MinKeyLen - 1)}

Trailers == { <<>>, <<"NBSP">>, <<"NBSP", "NBSP">> }

\* Node's HTTP parser strips the spaces and tabs around a header value, and
\* nothing else.
NodeHeaderValue(h) ==
    h = <<>> \/ (h[1] \notin {" ", "\t"} /\ h[Len(h)] \notin {" ", "\t"})

HeaderTexts ==
    {s \o p \o k \o t : s \in Schemes, p \in Separators, k \in KeyBodies, t \in Trailers}

BearerHeaders ==
    {Undefined} \cup {Str(h) : h \in {x \in HeaderTexts : NodeHeaderValue(x)}}

InitBearer ==
    /\ ServerIdle
    /\ \E h \in BearerHeaders :
         pure = [fn |-> "extractBearerApiKeyOptional", arg |-> [authorization |-> h],
                 ret |-> Undefined, returned |-> FALSE]

CallExtractBearer ==
    /\ pure.fn = "extractBearerApiKeyOptional"
    /\ ~pure.returned
    /\ pure' = [pure EXCEPT !.ret = extractBearerApiKeyOptional(pure.arg),
                            !.returned = TRUE]
    /\ UNCHANGED serverVars

NextBearer == CallExtractBearer

SpecBearer == InitBearer /\ [][NextBearer]_vars

\* the header text extractBearerApiKeyOptional was applied to
BearerHeaderText ==
    IF pure.arg.authorization.t = "str" THEN pure.arg.authorization.v ELSE <<>>

\* the header starts with the bearer scheme word and a whitespace character
HasBearerPrefix(h) ==
    /\ Len(h) > Len(BearerWord)
    /\ \A i \in 1..Len(BearerWord) : ToLower(h[i]) = BearerWord[i]
    /\ IsWs(h[Len(BearerWord) + 1])

\* what follows the scheme word and the whitespace that separates it
BearerValue(h) ==
    LET rest == Slice(h, Len(BearerWord) + 1, Len(h))
    IN  Slice(rest, LeadWs(rest) + 1, Len(rest))

BearerReturned == pure.fn = "extractBearerApiKeyOptional" /\ pure.returned

\* C4 as stated: a bearer prefix followed by a value of 10 to 256 characters
\* yields exactly that value, and every other header yields no credential.
C4_ValueAsSent ==
    BearerReturned =>
        LET h == BearerHeaderText
            v == BearerValue(h)
        IN  IF HasBearerPrefix(h) /\ Len(v) >= MinKeyLen /\ Len(v) <= MaxKeyLen
            THEN pure.ret = Str(v)
            ELSE pure.ret = Null

\* C4 (amended): the credential is the value after the bearer prefix with the
\* whitespace around it trimmed, when the trimmed value has 10 to 256
\* characters; every other header yields no credential.
C4_TrimmedValue ==
    BearerReturned =>
        LET h == BearerHeaderText
            v == Trim(BearerValue(h))
        IN  IF HasBearerPrefix(h) /\ Len(v) >= MinKeyLen /\ Len(v) <= MaxKeyLen
            THEN pure.ret = Str(v)
            ELSE pure.ret = Null

\* a header whose value ends in whitespace was given and its trimmed value
\* came back as the credential
C4_Witness ==
    /\ BearerReturned
    /\ HasBearerPrefix(BearerHeaderText)
    /\ Trim(BearerValue(BearerHeaderText)) # BearerValue(BearerHeaderText)
    /\ pure.ret = Str(Trim(BearerValue(BearerHeaderText)))

-----------------------------------------------------------------------------
(* extractTechnologies applied on its own to upstream bodies *)

MaxTechs == 2
MaxPaths == 2

SeqsUpTo(S, n) == UNION {[1..k -> S] : k \in 0..n}

TechEntries ==
    { Obj(<< <<"Name", Str("jQuery")>>, <<"Description", Str("JavaScript library")>>,
             <<"Tag", Str("javascript")>>, <<"Link", Str("https://jquery.com")>> >>),
      Obj(<< <<"Tag", Null>>, <<"Name", Str("nginx")>> >>),
      Null }

TechnologiesValues == {Arr(t) : t \in SeqsUpTo(TechEntries, MaxTechs)} \cup {Str("none")}

PathEntries ==
    {Obj(<< <<"Domain", Str("example.com")>>, <<"Technologies", t>> >>) : t \in TechnologiesValues}
    \cup {Obj(<< <<"Domain", Str("example.com")>> >>), Null}

PathsValues == {Arr(p) : p \in SeqsUpTo(PathEntries, MaxPaths)}

UpstreamBodies ==
    {LookupBody(p) : p \in PathsValues}
    \cup { LookupBody(Str("none")), LookupBody(Null),
           Null, Num(0), Obj(<< <<"Errors", Arr(<<>>)>> >>),
           Obj(<< <<"Results", Arr(<<>>)>> >>),
           Obj(<< <<"Results", Arr(<< Obj(<< <<"Lookup", Str("example.com")>> >>) >>)>> >>),
           Obj(<< <<"Results", Arr(<< Obj(<< <<"Result", Obj(<<>>)>> >>) >>)>> >>) }

InitExtract ==
    /\ ServerIdle
    /\ \E d \in UpstreamBodies :
         pure = [fn |-> "extractTechnologies", arg |-> d,
                 ret |-> Undefined, returned |-> FALSE]

CallExtractTechnologies ==
    /\ pure.fn = "extractTechnologies"
    /\ ~pure.returned
    /\ pure' = [pure EXCEPT !.ret = extractTechnologies(pure.arg), !.returned = TRUE]
    /\ UNCHANGED serverVars

NextExtract == CallExtractTechnologies

SpecExtract == InitExtract /\ [][NextExtract]_vars

ExtractReturned == pure.fn = "extractTechnologies" /\ pure.returned

\* the path objects of Results[0].Result.Paths, none when it is no list
PathList(data) == IF IsArray(ResultPaths(data)) THEN ResultPaths(data).v ELSE <<>>

\* the technology entries one path object holds
TechList(p) ==
    IF IsArray(OptGet(p, "Technologies")) THEN OptGet(p, "Technologies").v ELSE <<>>

\* <<i, j>>: entry j of path i, for every technology entry of the body
AllEntries(data) ==
    UNION {{<<i, j>> : j \in 1..Len(TechList(PathList(data)[i]))} : i \in 1..Len(PathList(data))}

\* the entries that are not null (or another falsy value)
KeptEntries(data) ==
    {e \in AllEntries(data) : Truthy(TechList(PathList(data)[e[1]])[e[2]])}

\* the place of entry e among the entries S, paths in order and technologies
\* in order within a path
PlaceIn(S, e) ==
    Cardinality({f \in S : f[1] < e[1] \/ (f[1] = e[1] /\ f[2] <= e[2])})

FieldNames == {"Name", "Description", "Tag", "Link"}

\* C10 as stated: N technology entries give exactly N records in the
\* original order, each field the source's, or "" when the entry lacks it.
C10_OneRecordPerEntry ==
    ExtractReturned =>
        LET data == pure.arg
            out == pure.ret.v
        IN  /\ Len(out) = Cardinality(AllEntries(data))
            /\ \A e \in AllEntries(data) :
                 LET tech == TechList(PathList(data)[e[1]])[e[2]]
                     rec == out[PlaceIn(AllEntries(data), e)]
                 IN  \A f \in FieldNames :
                       Get(rec, f) = IF HasKey(tech, f) THEN Get(tech, f) ELSE Str("")

\* C10 (amended): the result holds exactly one {Name, Description, Tag, Link}
\* record per technology entry that is not null (or otherwise falsy), in the
\* original order, each field the source's when it is present and truthy and
\* "" otherwise.
C10_OneRecordPerKeptEntry ==
    ExtractReturned =>
        LET data == pure.arg
            out == pure.ret.v
        IN  /\ pure.ret.t = "arr"
            /\ Len(out) = Cardinality(KeptEntries(data))
            /\ \A e \in KeptEntries(data) :
                 LET tech == TechList(PathList(data)[e[1]])[e[2]]
                     rec == out[PlaceIn(KeptEntries(data), e)]
                 IN  /\ [i \in 1..Len(rec.v) |-> rec.v[i][1]]
                        = <<"Name", "Description", "Tag", "Link">>
                     /\ \A f \in FieldNames :
                          Get(rec, f) = IF HasKey(tech, f) /\ Truthy(Get(tech, f))
                                        THEN Get(tech, f) ELSE Str("")

\* a body with a null entry between two technologies, in two path objects,
\* was flattened
C10_Witness ==
    /\ ExtractReturned
    /\ Len(PathList(pure.arg)) = 2
    /\ Cardinality(AllEntries(pure.arg)) > Cardinality(KeptEntries(pure.arg))
    /\ Cardinality(KeptEntries(pure.arg)) >= 2
    /\ Len(pure.ret.v) >= 2
    /\ pure.ret.v[1] # pure.ret.v[2]

-----------------------------------------------------------------------------
(* Properties of the server *)

IsHttp(r) == req[r].method \notin {"none", "stdio"}

\* r's handler is inside the scope als.run opened for it, or inside a
\* stdio tool call
InExtent(r) == pc[r] \in {"connecting", "fetching", "returned"}

\* the tool handler of r was called
Dispatched(r) == pc[r] \in {"fetching", "returned"}

QueryValue(url, key) ==
    url.query[CHOOSE i \in 1..Len(url.query) : url.query[i][1] = key][2]

\* r carries "Authorization: Bearer <key>" with a well-formed key
WellFormedBearer(r) ==
    /\ IsHttp(r)
    /\ req[r].authorization.t = "str"
    /\ HasBearerPrefix(req[r].authorization.v)
    /\ LET v == BearerValue(req[r].authorization.v)
       IN  Len(v) >= MinKeyLen /\ Len(v) <= MaxKeyLen /\ \A i \in 1..Len(v) : ~IsWs(v[i])

\* the credential such a request carries
CarriedCredential(r) == Str(BearerValue(req[r].authorization.v))

\* C1: of two concurrent HTTP invocations with distinct well-formed bearer
\* credentials, every upstream request of each carries in KEY its own
\* credential and never the other's.
C1_OwnCredentialOnly ==
    \A r \in Reqs : \A q \in Reqs \ {r} :
        (WellFormedBearer(r) /\ WellFormedBearer(q)
         /\ CarriedCredential(r) # CarriedCredential(q))
        => \A i \in 1..Len(outbound[r]) :
             /\ QueryValue(outbound[r][i], "KEY") = CarriedCredential(r)
             /\ QueryValue(outbound[r][i], "KEY") # CarriedCredential(q)

\* both invocations are suspended on the network, the second having
\* connected the shared server after the first
C1_Witness ==
    /\ WellFormedBearer(1) /\ WellFormedBearer(2)
    /\ CarriedCredential(1) # CarriedCredential(2)
    /\ pc[1] = "fetching" /\ pc[2] = "fetching"
    /\ serverTransport = 2
    /\ Len(outbound[1]) = 1 /\ Len(outbound[2]) = 1

FallbackConfigured == cfg.envKey.t = "str" /\ Len(cfg.envKey.v) > 0

HasOwnCredential(r) == IsHttp(r) /\ extractBearerApiKeyOptional(req[r]) # Null

\* the credential the invocation r is to resolve
ExpectedCredential(r) ==
    IF HasOwnCredential(r) THEN extractBearerApiKeyOptional(req[r])
    ELSE IF FallbackConfigured THEN cfg.envKey
    ELSE Null

\* C2: everywhere inside an invocation, before and after its suspension, the
\* resolved credential is its own per-request credential if it has one, else
\* the process-wide fallback if one is configured, else absent; and the
\* upstream request carries that credential.
C2_ResolvedCredential ==
    cfg.entry = "main" =>
        \A r \in Reqs :
            InExtent(r) =>
                /\ getCurrentApiKey(r) = ExpectedCredential(r)
                /\ \A i \in 1..Len(outbound[r]) :
                     QueryValue(outbound[r][i], "KEY") = ExpectedCredential(r)

\* an invocation with a credential of its own, under a configured fallback,
\* resumed after its fetch while the other invocation was being served
C2_Witness ==
    /\ cfg.entry = "main" /\ FallbackConfigured
    /\ HasOwnCredential(1) /\ pc[1] = "returned" /\ Len(outbound[1]) = 1
    /\ InExtent(2) /\ ~HasOwnCredential(2)
    /\ getCurrentApiKey(2) = cfg.envKey

NoCredential(r) == ~HasOwnCredential(r) /\ ~FallbackConfigured

MissingKeyText(r) ==
    IF cfg.entry = "main" THEN "{\"error\":\"Missing BuiltWith API key.\"}"
    ELSE IF req[r].call.name = "domain-lookup"
    THEN "{\"error\":\"Missing BUILTWITH_API_KEY environment variable.\"}"
    ELSE "{\"error\":\"Missing BUILTWITH_API_KEY.\"}"

\* C3: with no per-request credential and no fallback, the dispatch of every
\* tool, over HTTP, over stdio and in the legacy entrypoint, returns the
\* missing-API-key error payload and issues no upstream request.
C3_AuthMissingNoCall ==
    \A r \in Reqs :
        (Dispatched(r) /\ NoCredential(r))
        => /\ outbound[r] = <<>>
           /\ pc[r] = "returned"
           /\ envelope[r] = [content |-> << [type |-> "text", text |-> MissingKeyText(r)] >>]

\* an HTTP call of domain-lookup with a malformed bearer header and no
\* fallback was dispatched
C3_Witness ==
    /\ MCP_TRANSPORT = "http"
    /\ Dispatched(1) /\ NoCredential(1)
    /\ req[1].authorization.t = "str"
    /\ req[1].call.name = "domain-lookup"

\* the request carries an Origin header that names an origin (an empty
\* header value names none) which the non-empty allowlist does not hold
ForbiddenOrigin(r) ==
    /\ IsHttp(r)
    /\ Len(MCP_ALLOWED_ORIGINS) > 0
    /\ req[r].origin.t = "str"
    /\ req[r].origin.v # ""
    /\ ~Includes(MCP_ALLOWED_ORIGINS, req[r].origin.v)

\* C5 as stated: a request with a present, non-allowlisted origin under a
\* non-empty allowlist is rejected and causes no upstream request; a request
\* without an origin header, and any request under an empty allowlist, is
\* admitted.
C5_OriginCheck ==
    \A r \in Reqs :
        IsHttp(r) =>
            /\ ForbiddenOrigin(r) => (res[r].status = 403 /\ outbound[r] = <<>>)
            /\ req[r].origin.t = "undefined" => res[r].status # 403
            /\ Len(MCP_ALLOWED_ORIGINS) = 0 => res[r].status # 403

\* C6 as stated: every request on /mcp, of any method, with a present,
\* non-allowlisted origin under a non-empty allowlist is answered 403 before
\* anything else: no credential is extracted, no handler runs, no catalog is
\* returned.
C6_RejectedBeforeProcessing ==
    \A r \in Reqs :
        ForbiddenOrigin(r) =>
            /\ res[r].status = 403
            /\ res[r].payload # DiscoveryDocument
            /\ alsStore[r] = NoStore
            /\ envelope[r] = NoEnvelope

\* C7 as stated: an exception raised while connecting, handling or tearing
\* down a request is turned into the 500 response, and none is left
\* unhandled.
C7_CaughtAtBoundary ==
    /\ unhandled = {}
    /\ \A r \in Reqs :
         faults[r] \cap {"server.connect", "handleRequest", "handleRequest after headers"} # {}
         => res[r].status = 500

\* C8: a tool handler that returned gave an envelope with one text item, the
\* JSON text of the failure's error object for a failed upstream result and
\* of the upstream body for an Ok result of a tool other than domain-lookup.
C8_EnvelopeCarriesResult ==
    \A r \in Reqs :
        pc[r] = "returned" =>
            /\ DOMAIN envelope[r] = {"content"}
            /\ Len(envelope[r].content) = 1
            /\ envelope[r].content[1].type = "text"
            /\ result[r] # NoResult =>
                 IF ~result[r].ok
                 THEN envelope[r].content[1].text = Stringify(result[r].error)
                 ELSE req[r].call.name # "domain-lookup"
                      => envelope[r].content[1].text = Stringify(result[r].data)

\* a JSON tool returned after an upstream 403 with a JSON body, whose error
\* object is the text of the envelope
C8_Witness ==
    /\ pc[1] = "returned"
    /\ req[1].call.name = "trends-api"
    /\ ~result[1].ok
    /\ envelope[1].content[1].text
         = "{\"error\":\"BuiltWith API error.\",\"status\":403,\"data\":{\"Errors\":[{\"Message\":\"API key is incorrect\"}]}}"

\* C9 as stated: every tool invocation issues exactly one upstream request.
C9_ExactlyOneCall ==
    \A r \in Reqs :
        /\ Len(outbound[r]) <= 1
        /\ pc[r] = "returned" => Len(outbound[r]) = 1

CredentialResolvable(r) == HasOwnCredential(r) \/ FallbackConfigured

\* C9 (amended): a tool invocation issues exactly one upstream request when
\* a credential is resolvable and none when it is not; never more than one,
\* whatever the outcome of the request.
C9_OneCallIffCredential ==
    \A r \in Reqs :
        /\ Len(outbound[r]) <= 1
        /\ Dispatched(r) => Len(outbound[r]) = IF CredentialResolvable(r) THEN 1 ELSE 0

\* an invocation returned after its one request failed on the network
C9_Witness ==
    /\ pc[1] = "returned"
    /\ Len(outbound[1]) = 1
    /\ ~result[1].ok
    /\ Get(result[1].error, "error") = Str("Failed to reach BuiltWith API.")

\* the upstream answered r with a success status and a JSON body
UpstreamSuccess(r) ==
    /\ upstream[r].kind = "response"
    /\ upstream[r].json
    /\ ResponseOk(upstream[r].status)

NoTechnologiesText == "{\"error\":\"No technologies found\"}"

\* C11: domain-lookup, after a successful upstream response whose Paths is
\* absent, empty or no list, or whose paths hold no technology, returns the
\* "No technologies found" marker: not an empty list and not one of the
\* upstream failure payloads.
C11_NoTechnologiesMarker ==
    \A r \in Reqs :
        (/\ UpstreamSuccess(r)
         /\ req[r].call.name = "domain-lookup"
         /\ KeptEntries(upstream[r].body) = {})
        => /\ envelope[r] = [content |-> << [type |-> "text", text |-> NoTechnologiesText] >>]
           /\ envelope[r].content[1].text # "[]"
           /\ result[r].ok

\* domain-lookup returned the marker for a 200 response whose Paths is a
\* string
C11_Witness ==
    /\ pc[1] = "returned"
    /\ req[1].call.name = "domain-lookup"
    /\ UpstreamSuccess(1)
    /\ ResultPaths(upstream[1].body) = Str("none")
    /\ envelope[1].content[1].text = NoTechnologiesText

-----------------------------------------------------------------------------
(* requestBuiltWithJson applied on its own to a path and mapped params *)

OverrideHostname == "api.example.test"

ParamValues == {Undefined, Null, Str(""), Str("example.com"), Str("yes"), Bool(FALSE), Num(0)}

ParamObjects ==
    {Obj(<< <<"LOOKUP", v>>, <<"LIVEONLY", w>> >>) : v \in ParamValues, w \in ParamValues}
    \cup {Obj(<< <<k, v>> >>) : k \in {"COMPANY", "TECH"}, v \in ParamValues}
    \cup {Obj(<<>>), Undefined}

UrlPaths == {"v22/api.json", "trends/v6/api.json"}

\* BUILTWITH_API_HOSTNAME unset or set (line 15); the legacy entrypoint
\* reads no hostname from the environment (line 488)
UrlConfigs ==
    {[entry |-> "main", transport |-> "stdio", envKey |-> k, hostname |-> h,
      allowed |-> <<>>] : k \in EnvKeys, h \in {"api.builtwith.com", OverrideHostname}}
    \cup {[entry |-> "legacy", transport |-> "stdio", envKey |-> k,
           hostname |-> "api.builtwith.com", allowed |-> <<>>] : k \in EnvKeys}

InitUrl ==
    /\ cfg \in UrlConfigs
    /\ Registered
    /\ RequestsIdle
    /\ \E path \in UrlPaths, params \in ParamObjects :
         pure = [fn |-> "requestBuiltWithJson", arg |-> [path |-> path, params |-> params],
                 ret |-> <<>>, returned |-> FALSE]

\* requestBuiltWithJson(path, params) up to its fetch, called outside every
\* als.run
CallRequestBuiltWithJson ==
    /\ pure.fn = "requestBuiltWithJson"
    /\ ~pure.returned
    /\ pure' = [pure EXCEPT
                  !.ret = IF cfg.entry = "legacy"
                          THEN requestBuiltWithJson_legacy(1, pure.arg.path, pure.arg.params).fetch
                          ELSE requestBuiltWithJson(1, pure.arg.path, pure.arg.params).fetch,
                  !.returned = TRUE]
    /\ UNCHANGED serverVars

NextUrl == CallRequestBuiltWithJson

SpecUrl == InitUrl /\ [][NextUrl]_vars

UrlBuilt == pure.fn = "requestBuiltWithJson" /\ pure.returned /\ pure.ret # <<>>

\* the entries of the mapped params
ParamEntries(params) == IF params.t = "obj" THEN params.v ELSE <<>>

\* the value of an entry is neither absent nor the empty string
Present(value) == value.t \notin {"undefined", "null"} /\ value # Str("")

\* C12: the outbound URL is https://{configured hostname}/{path} and its
\* query holds KEY with the credential and, as strings, exactly the entries
\* of the mapped params whose value is neither undefined, null nor "": an
\* absent or empty value is not sent, the boolean false and the number 0 are.
C12_UrlAndQuery ==
    UrlBuilt =>
        LET url == pure.ret[1]
            entries == ParamEntries(pure.arg.params)
            sent == {i \in 1..Len(entries) : Present(entries[i][2])}
        IN  /\ Len(pure.ret) = 1
            /\ url.scheme = "https"
            /\ url.host = cfg.hostname
            /\ url.path = pure.arg.path
            /\ url.query[1] = <<"KEY", cfg.envKey>>
            /\ Len(url.query) = 1 + Cardinality(sent)
            /\ \A i \in sent : \E j \in 2..Len(url.query) :
                 url.query[j] = <<entries[i][1], Str(ToStr(entries[i][2]))>>
            /\ \A j \in 2..Len(url.query) :
                 /\ url.query[j][2] # Str("")
                 /\ \E i \in sent : url.query[j][1] = entries[i][1]

\* a URL was built on the overriding hostname from params holding false and
\* an empty string: LIVEONLY=false is in the query, LOOKUP is not
C12_Witness ==
    /\ UrlBuilt
    /\ cfg.hostname = OverrideHostname
    /\ pure.arg.params = Obj(<< <<"LOOKUP", Str("")>>, <<"LIVEONLY", Bool(FALSE)>> >>)
    /\ pure.ret[1].query = << <<"KEY", cfg.envKey>>, <<"LIVEONLY", Str("false")>> >>

-----------------------------------------------------------------------------
(* Properties of dispatch *)

\* r is a tools/call
HasCall(r) == req[r].method \notin {"none", "GET", "HEAD"}

Discovered(r) == req[r].method = "GET" /\ res[r].status = 200

\* the tools of the document r was answered with
DiscoveredTools(r) == Get(res[r].payload, "tools").v

\* the type a parameter was declared with, and whether it was declared
\* optional
DeclaredType(val) ==
    LET base == IF val.typeName = "ZodOptional" THEN val.innerType ELSE val
    IN  CASE base.typeName = "ZodString" -> "string"
          [] base.typeName = "ZodBoolean" -> "boolean"

DeclaredOptional(val) == val.typeName = "ZodOptional"

\* C14: the catalog a discovery read returns holds, for each tool registered
\* for dispatch and in the order of registration, one entry with the name
\* and description of the registration and with parameters that list exactly
\* the declared parameters, each with its declared type and marked
\* "(optional)" if and only if declared optional; it holds no other entry.
C14_DiscoveryRoundTrip ==
    \A r \in Reqs :
        Discovered(r) =>
            LET tools == DiscoveredTools(r)
            IN  /\ Len(tools) = Len(registeredTools)
                /\ \A i \in 1..Len(tools) :
                     LET entry == tools[i]
                         tool == registeredTools[i]
                         parameters == Get(entry, "parameters")
                     IN  /\ Get(entry, "name") = Str(tool.name)
                         /\ Get(entry, "description") = Str(tool.description)
                         /\ parameters.t = "obj"
                         /\ Len(parameters.v) = Len(tool.schema)
                         /\ \A k \in 1..Len(tool.schema) :
                              /\ parameters.v[k][1] = tool.schema[k][1]
                              /\ parameters.v[k][2]
                                   = Str(IF DeclaredOptional(tool.schema[k][2])
                                         THEN DeclaredType(tool.schema[k][2]) \o " (optional)"
                                         ELSE DeclaredType(tool.schema[k][2]))
                /\ \A i \in 1..Len(tools) : \A j \in 1..Len(tools) :
                     Get(tools[i], "name") = Get(tools[j], "name") => i = j

\* a discovery read returned the fourteen tools, domain-lookup first with
\* its optional boolean and trends-api with its string parameter
C14_Witness ==
    /\ Discovered(1)
    /\ Len(DiscoveredTools(1)) = 14
    /\ Get(DiscoveredTools(1)[1], "parameters")
         = Obj(<< <<"domain", Str("string")>>, <<"liveOnly", Str("boolean (optional)")>> >>)
    /\ DiscoveredTools(1)[10]
         = Obj(<< <<"name", Str("trends-api")>>,
                  <<"description", Str("Trends API JSON lookup for technology trend data.")>>,
                  <<"parameters", Obj(<< <<"tech", Str("string")>> >>)>> >>)

-----------------------------------------------------------------------------
(* Properties of concurrent requests and of teardown *)

\* the tools/call of r is being served over HTTP: its transport was
\* connected and its answer has not been sent
BeingServed(r) ==
    /\ IsHttp(r)
    /\ pc[r] \in {"connecting", "fetching", "returned", "refused"}

\* the response of r holds a JSON-RPC message
HoldsMessage(r) == res[r].body = "message"

\* C15 as stated: an invocation writes no state another invocation reads, so
\* the server an invocation is served by stays connected to that
\* invocation's channel, and a message written on a channel is the answer to
\* that channel's own invocation.
C15_Independent ==
    \A r \in Reqs :
        /\ BeingServed(r) => serverTransport = r
        /\ HoldsMessage(r)
           => /\ envelope[r] # NoEnvelope
              /\ res[r].payload = RpcResponse(envelope[r])

\* the KEY parameters of a URL
KeyParams(url) == {j \in 1..Len(url.query) : url.query[j][1] = "KEY"}

\* in stdio mode no invocation has a credential of its own, every upstream
\* request carries the fallback and no other KEY, and a request is issued if
\* and only if the fallback is configured
StdioFallbackOnly ==
    MCP_TRANSPORT = "stdio" =>
        \A r \in Reqs :
            /\ alsStore[r] = NoStore
            /\ \A i \in 1..Len(outbound[r]) :
                 /\ FallbackConfigured
                 /\ KeyParams(outbound[r][i]) = {1}
                 /\ outbound[r][i].query[1][2] = cfg.envKey
            /\ Dispatched(r) => (Len(outbound[r]) = 1 <=> FallbackConfigured)

\* C16: in stdio mode every tool invocation of the process resolves its
\* credential to the fallback fixed at startup, whatever its input holds,
\* and no step of an invocation changes the fallback.
C16_StdioFallbackOnly == []StdioFallbackOnly /\ [][cfg' = cfg]_vars

\* two stdio invocations, the first with an input that names a KEY of its
\* own, both sent the fallback credential
C16_Witness ==
    /\ MCP_TRANSPORT = "stdio"
    /\ req[1].method = "stdio"
    /\ HasKey(req[1].call.input, "KEY")
    /\ pc[1] = "returned"
    /\ Dispatched(2)
    /\ Len(outbound[1]) = 1 /\ Len(outbound[2]) = 1
    /\ outbound[1][1].query = << <<"KEY", cfg.envKey>>, <<"LOOKUP", Str("example.com")>> >>
    /\ outbound[2][1].query[1] = <<"KEY", cfg.envKey>>

\* the authorization header of r is missing or malformed: it is not the
\* bearer scheme followed by a value of 10 to 256 characters
AuthorizationUnusable(r) ==
    \/ req[r].authorization.t # "str"
    \/ ~HasBearerPrefix(req[r].authorization.v)
    \/ Len(Trim(BearerValue(req[r].authorization.v))) < MinKeyLen
    \/ Len(Trim(BearerValue(req[r].authorization.v))) > MaxKeyLen

MissingKeyEnvelope ==
    [content |-> << [type |-> "text", text |-> "{\"error\":\"Missing BuiltWith API key.\"}"] >>]

\* C17: a tools/call request over HTTP whose authorization header is missing
\* or malformed is rejected only for its origin; it is served inside a store
\* whose apiKey is null, it is dispatched unless the server or the transport
\* fails, and its handler returns the missing-key error without an upstream
\* request when no fallback is configured and issues the request with the
\* fallback when one is.
C17_MissingAuthNotRejected ==
    \A r \in Reqs :
        (IsHttp(r) /\ HasCall(r) /\ AuthorizationUnusable(r))
        => /\ res[r].status \in {400, 401, 403} => ~validateOrigin(req[r])
           /\ validateOrigin(req[r]) => alsStore[r] = [t |-> "obj", apiKey |-> Null]
           /\ (pc[r] = "done" /\ validateOrigin(req[r]) /\ faults[r] = {})
              => envelope[r] # NoEnvelope
           /\ Dispatched(r)
              => IF FallbackConfigured
                 THEN /\ Len(outbound[r]) = 1
                      /\ QueryValue(outbound[r][1], "KEY") = cfg.envKey
                      /\ envelope[r] # MissingKeyEnvelope
                 ELSE /\ outbound[r] = <<>>
                      /\ envelope[r] = MissingKeyEnvelope

\* a request with a Basic authorization header was dispatched and its call
\* made with the fallback credential
C17_Witness ==
    /\ IsHttp(1) /\ HasCall(1)
    /\ req[1].authorization.t = "str"
    /\ AuthorizationUnusable(1)
    /\ FallbackConfigured
    /\ pc[1] = "returned"
    /\ Len(outbound[1]) = 1
    /\ QueryValue(outbound[1][1], "KEY") = cfg.envKey
    /\ result[1].ok

-----------------------------------------------------------------------------
(* Properties of the upstream client *)

\* the kind of an upstream result
ResultKind(rslt) ==
    IF rslt.ok THEN "Ok"
    ELSE CASE Get(rslt.error, "error") = Str("Failed to reach BuiltWith API.") -> "NetworkError"
           [] Get(rslt.error, "error") = Str("BuiltWith API did not return JSON.") -> "BadUpstreamResponse"
           [] Get(rslt.error, "error") = Str("BuiltWith API error.") -> "UpstreamError"
           [] OTHER -> "AuthMissing"

\* C18: once the fetch of an invocation settled, its result is NetworkError
\* with the failure message when the fetch failed; else BadUpstreamResponse
\* with the status when the body is not JSON, whatever the status; else
\* UpstreamError with the status and the parsed body when the status is not
\* a success; else Ok with the parsed body.
C18_ClassificationOrder ==
    \A r \in Reqs :
        upstream[r].kind # "none" =>
            LET o == upstream[r]
                rslt == result[r]
            IN  IF o.kind = "rejected"
                THEN /\ ResultKind(rslt) = "NetworkError"
                     /\ rslt.error = Obj(<< <<"error", Str("Failed to reach BuiltWith API.")>>,
                                            <<"details", Str(o.message)>> >>)
                ELSE IF ~o.json
                THEN /\ ResultKind(rslt) = "BadUpstreamResponse"
                     /\ rslt.error = Obj(<< <<"error", Str("BuiltWith API did not return JSON.")>>,
                                            <<"status", Num(o.status)>> >>)
                ELSE IF o.status < 200 \/ o.status > 299
                THEN /\ ResultKind(rslt) = "UpstreamError"
                     /\ rslt.error = Obj(<< <<"error", Str("BuiltWith API error.")>>,
                                            <<"status", Num(o.status)>>,
                                            <<"data", o.body>> >>)
                ELSE /\ ResultKind(rslt) = "Ok"
                     /\ rslt = [ok |-> TRUE, data |-> o.body]

\* a 502 whose body is not JSON was classified by its body, not its status
C18_Witness ==
    /\ upstream[1].kind = "response"
    /\ upstream[1].status = 502
    /\ ~upstream[1].json
    /\ ResultKind(result[1]) = "BadUpstreamResponse"
    /\ Get(result[1].error, "status") = Num(502)

-----------------------------------------------------------------------------
(* Properties of teardown *)

CloseErrors == {"transport.close throws", "transport.close rejects"}

\* C19 as stated: when the response of a request served by a transport
\* closes, transport.close() is invoked, and an error it throws or rejects
\* with is swallowed: it is left unhandled nowhere and the response path
\* does not see it.
C19_TeardownSwallowed ==
    \A r \in Reqs :
        /\ res[r].closed => alsStore[r] # NoStore
        /\ faults[r] \cap CloseErrors # {}
           => /\ res[r].closed
              /\ <<r, "transport.close">> \notin unhandled

\* C20 as stated: once the response of a request has closed, nothing more is
\* written on it: not the answer to its tools/call, not the 500 of the
\* catch block.
C20_NoWriteAfterClose ==
    [][\A r \in Reqs :
         res[r].closed => /\ res'[r].status = res[r].status
                          /\ res'[r].body = res[r].body
                          /\ res'[r].payload = res[r].payload]_vars

-----------------------------------------------------------------------------
(* Prompts, and the catalogs over tool calls, prompt renders and discovery *)

PromptNames ==
    {"analyze-tech-stack", "find-related-websites", "get-technology-recommendations",
     "research-company", "check-domain-trust"}

\* the argument a prompt is registered with
PromptArgument(name) == IF name = "research-company" THEN "company" ELSE "domain"

\* the template literals of registerPrompts
PromptText(name, arg) ==
    CASE name = "analyze-tech-stack" ->
           "Use the domain-lookup tool to retrieve the live technologies used on \"" \o arg
           \o "\". Summarize the tech stack by category (e.g. analytics, hosting, frameworks, CMS, CDN, widgets) and highlight any notable or unusual choices."
      [] name = "find-related-websites" ->
           "Use the relationships-api tool to find websites related to \"" \o arg
           \o "\". Summarize the relationships found, grouping them by type (e.g. shared analytics, shared hosting, same owner)."
      [] name = "get-technology-recommendations" ->
           "Use the recommendations-api tool to get technology recommendations for \"" \o arg
           \o "\". Present the recommendations clearly, explaining what each suggested technology does and why it might be a good fit."
      [] name = "research-company" ->
           "First use the company-to-url tool to find domains associated with \"" \o arg
           \o "\". Then use the domain-lookup tool on the primary domain to analyze their tech stack. Provide a summary of the company's web presence and the technologies they use."
      [] name = "check-domain-trust" ->
           "Use the trust-api tool to look up the trust score for \"" \o arg
           \o "\". Explain the trust score, what factors contribute to it, and any concerns or positive signals found."

\* the callback server.prompt registers under a name
renderPrompt(name, input) ==
    [messages |-> << [role |-> "user",
                      content |-> [type |-> "text",
                                   text |-> PromptText(name, Get(input, PromptArgument(name)).v)]] >>]

PromptCalls ==
    {[name |-> n, input |-> Obj(<< <<PromptArgument(n), Str("example.com")>> >>)] :
        n \in PromptNames}

\* a prompts/get message on the stdio transport of the combined entrypoint:
\* the callback returns its messages
StdioPromptGet(r, prompts) ==
    /\ cfg.entry = "main" /\ MCP_TRANSPORT = "stdio"
    /\ pc[r] = "idle"
    /\ \E p \in prompts :
         /\ req' = [req EXCEPT ![r] = [method |-> "stdio", origin |-> Undefined,
                                       authorization |-> Undefined, call |-> NoCall,
                                       prompt |-> p]]
         /\ envelope' = [envelope EXCEPT ![r] = renderPrompt(p.name, p.input)]
    /\ pc' = [pc EXCEPT ![r] = "rendered"]
    /\ UNCHANGED <<cfg, toolCatalog, registeredTools, alsStore, serverTransport,
                   outbound, upstream, result, res, faults, unhandled, pure>>

\* the calls of the registered tools with arguments their schemas accept
ValidCalls ==
    {[name |-> ToolTable[i].name,
      input |-> Obj(<< <<ToolTable[i].input, Str("example.com")>> >>)] : i \in 1..Len(ToolTable)}

CatalogRequests ==
    HttpRequests({"POST"}, {Undefined}, {Undefined, Str(BearerOf(Key1))},
                 ValidCalls \cup UnknownCalls)

CatalogReads == HttpRequests({"GET"}, {Undefined}, {Undefined}, {})

\* request 1 is a tool invocation, request 2 a discovery read or a prompt
\* render, in any order
InitCatalog ==
    /\ cfg \in PairConfigs
    /\ Registered
    /\ RequestsIdle
    /\ pure = NoCall

NextCatalog ==
    \/ AppAllMcp(1, CatalogRequests)
    \/ ConnectRejects(1)
    \/ HandleRequestRejects(1)
    \/ Dispatch(1)
    \/ StdioToolCall(1, ValidCalls \cup UnknownCalls)
    \/ FetchSettles(1, PairOutcomes)
    \/ SendResult(1)
    \/ ResClose(1)
    \/ AppGetMcp(2, CatalogReads)
    \/ StdioPromptGet(2, PromptCalls)

SpecCatalog == InitCatalog /\ [][NextCatalog]_vars

\* the tools the README lists as supported, in its order
SupportedTools ==
    << "domain-lookup", "domain-api", "relationships-api", "free-api", "company-to-url",
       "tags-api", "recommendations-api", "redirects-api", "keywords-api", "trends-api",
       "product-api", "trust-api", "financial-api", "social-api" >>

\* the entries of the tool table registered under a name
TableEntries(name) == {i \in 1..Len(ToolTable) : ToolTable[i].name = name}

\* the registered tools are the fourteen supported tools in order, under
\* pairwise distinct names; the discovery catalog of the combined entrypoint
\* lists the same names in the same order; and the upstream request of a
\* tool invocation goes to the one path its tool is bound to
CatalogShape ==
    /\ Len(registeredTools) = 14
    /\ [i \in 1..Len(registeredTools) |-> registeredTools[i].name] = SupportedTools
    /\ \A i \in 1..Len(registeredTools) : \A j \in 1..Len(registeredTools) :
         registeredTools[i].name = registeredTools[j].name => i = j
    /\ cfg.entry = "main"
       => /\ Len(toolCatalog) = 14
          /\ \A i \in 1..Len(toolCatalog) :
               Get(toolCatalog[i], "name") = Str(SupportedTools[i])
    /\ \A r \in Reqs :
         (Dispatched(r) /\ outbound[r] # <<>>)
         => /\ Cardinality(TableEntries(req[r].call.name)) = 1
            /\ \A i \in TableEntries(req[r].call.name) :
                 \A k \in 1..Len(outbound[r]) : outbound[r][k].path = ToolTable[i].path

\* C21: after startup the tool catalog holds exactly 14 entries with
\* pairwise distinct names in registration order, each bound to one upstream
\* path, and no step of a tool invocation, a prompt render or a discovery
\* read changes the catalog.
C21_CatalogFixed ==
    /\ []CatalogShape
    /\ [][toolCatalog' = toolCatalog /\ registeredTools' = registeredTools]_vars

\* a tool invocation was answered and a discovery read returned the
\* fourteen entries
C21_Witness ==
    /\ pc[1] = "done"
    /\ HoldsMessage(1)
    /\ Len(outbound[1]) = 1
    /\ req[1].call.name = "trends-api"
    /\ outbound[1][1].path = "trends/v6/api.json"
    /\ Discovered(2)
    /\ Len(DiscoveredTools(2)) = 14

-----------------------------------------------------------------------------
(* domain-lookup: the LOOKUP and LIVEONLY parameters *)

\* the domain-lookup calls: a domain or the empty string, with liveOnly
\* omitted, true or false
LookupCalls ==
    {[name |-> "domain-lookup", input |-> Obj(<< <<"domain", Str(d)>> >> \o live)] :
        d \in {"example.com", ""},
        live \in {<<>>, << <<"liveOnly", Bool(TRUE)>> >>, << <<"liveOnly", Bool(FALSE)>> >>}}

LookupRequests ==
    HttpRequests({"POST"}, {Undefined}, {Undefined, Str(BearerOf(Key1))}, LookupCalls)

InitLookup ==
    /\ cfg \in PairConfigs
    /\ Registered
    /\ RequestsIdle
    /\ pure = NoCall

NextLookup ==
    \/ AppAllMcp(1, LookupRequests)
    \/ ConnectRejects(1)
    \/ HandleRequestRejects(1)
    \/ Dispatch(1)
    \/ StdioToolCall(1, LookupCalls)
    \/ FetchSettles(1, AllOutcomes)
    \/ SendResult(1)
    \/ ResClose(1)

SpecLookup == InitLookup /\ [][NextLookup]_vars

\* the entries of a URL's query under a parameter name
QueryEntries(url, key) == {j \in 1..Len(url.query) : url.query[j][1] = key}

QueryValues(url, key) == {url.query[j][2] : j \in QueryEntries(url, key)}

\* request r is a domain-lookup invocation that issued an upstream request
LookupIssued(r) ==
    /\ Dispatched(r)
    /\ req[r].call.name = "domain-lookup"
    /\ outbound[r] # <<>>

\* LIVEONLY is sent once as "yes" unless liveOnly is false, and then not at all
LiveOnlyParam(r) ==
    \A k \in 1..Len(outbound[r]) :
      IF Get(req[r].call.input, "liveOnly") = Bool(FALSE)
      THEN QueryEntries(outbound[r][k], "LIVEONLY") = {}
      ELSE /\ Cardinality(QueryEntries(outbound[r][k], "LIVEONLY")) = 1
           /\ QueryValues(outbound[r][k], "LIVEONLY") = {Str("yes")}

\* C22 as stated: domain-lookup sends LIVEONLY=yes when liveOnly is omitted
\* or true and no LIVEONLY parameter exactly when liveOnly is false, and
\* LOOKUP always carries the domain input.
C22_LookupAlways ==
    \A r \in Reqs :
      LookupIssued(r)
      => /\ LiveOnlyParam(r)
         /\ \A k \in 1..Len(outbound[r]) :
              /\ Cardinality(QueryEntries(outbound[r][k], "LOOKUP")) = 1
              /\ QueryValues(outbound[r][k], "LOOKUP") = {Get(req[r].call.input, "domain")}

\* C22: domain-lookup sends LIVEONLY=yes when liveOnly is omitted or true
\* and no LIVEONLY parameter exactly when liveOnly is false; LOOKUP carries
\* the domain input when it is not the empty string, and is not sent when it
\* is the empty string.
C22_LiveOnlyAndLookup ==
    \A r \in Reqs :
      LookupIssued(r)
      => /\ LiveOnlyParam(r)
         /\ \A k \in 1..Len(outbound[r]) :
              IF Get(req[r].call.input, "domain") = Str("")
              THEN QueryEntries(outbound[r][k], "LOOKUP") = {}
              ELSE /\ Cardinality(QueryEntries(outbound[r][k], "LOOKUP")) = 1
                   /\ QueryValues(outbound[r][k], "LOOKUP")
                        = {Get(req[r].call.input, "domain")}

\* a lookup of a domain with liveOnly omitted went upstream with
\* LOOKUP and LIVEONLY=yes
C22_Witness ==
    /\ LookupIssued(1)
    /\ Get(req[1].call.input, "domain") = Str("example.com")
    /\ Get(req[1].call.input, "liveOnly") = Undefined
    /\ QueryValues(outbound[1][1], "LIVEONLY") = {Str("yes")}
    /\ QueryValues(outbound[1][1], "LOOKUP") = {Str("example.com")}

\* a lookup with liveOnly false went upstream without LIVEONLY
C22_WitnessFalse ==
    /\ LookupIssued(1)
    /\ Get(req[1].call.input, "liveOnly") = Bool(FALSE)
    /\ QueryEntries(outbound[1][1], "LIVEONLY") = {}
    /\ QueryValues(outbound[1][1], "LOOKUP") = {Str("example.com")}

====
